---- MODULE Spec2Model ----
(***************************************************************************)
(* Model of trm.ucm (src/trm/ucm/__init__.py): the ucm frame codec.        *)
(*                                                                         *)
(* A file is a sequence of bytes.  The model keeps the file as a sequence  *)
(* of fields, each the bytes one struct.pack / tofile call wrote, so that  *)
(* files can be byte-swapped or cut at a field boundary; the reader only   *)
(* ever sees the flattened bytes.                                          *)
(*                                                                         *)
(* Numbers whose numeric value the code uses (int32 counts, lengths, tags, *)
(* window geometry, uint16, single bytes) are integers.  Numbers the code  *)
(* only carries (double, float32, uint32) are modelled by their bit        *)
(* pattern, a sequence of bytes most significant first; an in-memory       *)
(* float32 quantity (a pixel, a float header value) is one that float32    *)
(* represents exactly.  The host is little-endian: struct's native order   *)
(* and numpy's fromfile/tofile order are least significant byte first.     *)
(* Strings are sequences of character codes.  Every header value is a      *)
(* sequence of integers (see ValueFor).                                    *)
(***************************************************************************)
EXTENDS Integers, Sequences, FiniteSets, TLC

VARIABLES
    self,    \* the in-memory Ucm the scenario starts from
    disk,    \* the file: a sequence of fields [k |-> kind, b |-> bytes]
    phase,   \* "new", "written", "tampered", "read", "compared"
    how,     \* what a foreign writer changed in the file: "none", "u16", "tag", "iout", "magic", "bin"
    xf,      \* what happened to the file as a whole: "none", "swap", "cut"
    wexc,    \* exception Ucm.write ended with (NoExc: it returned)
    wfh,     \* file handle of Ucm.write: "unopened", "open", "closed"
    rexc,    \* exception Ucm(fnoro) ended with
    rfh,     \* file handle of _rucm
    endian,  \* start_format chosen by _check_ucm: "", ">" or "none"
    other,   \* the Ucm built by Ucm(fnoro), NoUcm while there is none
    eqres    \* <<a == b, a != b>> once compared, <<>> before

vars == <<self, disk, phase, how, xf, wexc, wfh, rexc, rfh, endian, other, eqres>>

----------------------------------------------------------------------------
(* Integer type numbers, src/trm/ucm/__init__.py:65-83, and the magic.     *)

ITYPE_DOUBLE    == 0
ITYPE_CHAR      == 1
ITYPE_INT       == 2
ITYPE_UINT      == 3
ITYPE_LINT      == 4
ITYPE_ULINT     == 5
ITYPE_FLOAT     == 6
ITYPE_STRING    == 7
ITYPE_BOOL      == 8
ITYPE_DIR       == 9
ITYPE_DATE      == 10
ITYPE_TIME      == 11
ITYPE_POSITION  == 12
ITYPE_DVECTOR   == 13
ITYPE_UCHAR     == 14
ITYPE_TELESCOPE == 15
ITYPE_USINT     == 16
ITYPE_IVECTOR   == 17
ITYPE_FVECTOR   == 18

MAGIC == 47561009

\* The tags whose branch of the type dispatch transfers a payload.
SupportedTags ==
    {ITYPE_DOUBLE, ITYPE_INT, ITYPE_UINT, ITYPE_FLOAT, ITYPE_STRING, ITYPE_BOOL,
     ITYPE_DIR, ITYPE_TIME, ITYPE_DVECTOR, ITYPE_UCHAR, ITYPE_USINT,
     ITYPE_IVECTOR, ITYPE_FVECTOR}

\* The tags whose branch raises "... not enabled".
ReservedTags ==
    {ITYPE_CHAR, ITYPE_LINT, ITYPE_ULINT, ITYPE_DATE, ITYPE_POSITION, ITYPE_TELESCOPE}

----------------------------------------------------------------------------
(* Exceptions: the Python class raised and what its message says.          *)

NoExc == [cls |-> "", msg |-> ""]
Raise(c, m) == [cls |-> c, msg |-> m]

----------------------------------------------------------------------------
(* Bytes and the struct module.                                            *)

Min(a, b) == IF a < b THEN a ELSE b

Reverse(s) == [i \in 1..Len(s) |-> s[Len(s) + 1 - i]]

RECURSIVE Pow(_, _)
Pow(b, n) == IF n = 0 THEN 1 ELSE b * Pow(b, n - 1)

\* Bytes of a struct format character.
calcsize(code) ==
    CASE code = "i" -> 4 [] code = "I" -> 4 [] code = "f" -> 4
      [] code = "d" -> 8 [] code = "H" -> 2 [] code = "B" -> 1 [] code = "c" -> 1

\* Format characters whose value is an integer; the others carry a bit pattern.
Numeric(code) == code \in {"i", "H", "B", "c"}

\* w bytes, most significant first, of v >= 0.
NatBytes(v, w) == [i \in 1..w |-> (v \div Pow(256, w - i)) % 256]

\* w bytes, most significant first, of v in two's complement.
IntBytes(v, w) ==
    IF v >= 0 THEN NatBytes(v, w)
    ELSE [i \in 1..w |-> 255 - NatBytes(-(v + 1), w)[i]]

\* Value of bytes given most significant first, as an unsigned number.
RECURSIVE NatValue(_)
NatValue(b) ==
    IF Len(b) = 0 THEN 0
    ELSE 256 * NatValue(SubSeq(b, 1, Len(b) - 1)) + b[Len(b)]

\* Value of 4 bytes given most significant first, as an int32.
Int32Value(b) ==
    IF b[1] >= 128 THEN -(NatValue([i \in 1..4 |-> 255 - b[i]])) - 1
    ELSE NatValue(b)

\* struct.pack(fmt + code, v): fmt "" is native (little-endian host), ">" big-endian.
pack(fmt, code, v) ==
    LET msb == IF Numeric(code) THEN IntBytes(v, calcsize(code)) ELSE v
    IN  IF fmt = ">" THEN msb ELSE Reverse(msb)

\* struct.unpack(fmt + code, b) for Len(b) = calcsize(code).
unpack(fmt, code, b) ==
    LET msb == IF fmt = ">" THEN b ELSE Reverse(b)
    IN  IF code = "i" THEN Int32Value(msb)
        ELSE IF Numeric(code) THEN NatValue(msb)
        ELSE msb

\* n items of w bytes each from a flat sequence.
Chunks(b, w) == [i \in 1..(Len(b) \div w) |-> SubSeq(b, (i - 1) * w + 1, i * w)]

RECURSIVE Flat(_)
Flat(ss) == IF Len(ss) = 0 THEN <<>> ELSE Head(ss) \o Flat(Tail(ss))

----------------------------------------------------------------------------
(* trm.subs.cpp strings: an int32 length, then that many raw bytes.  The   *)
(* writer has no byte-order argument (native order); the reader takes one. *)

Field(k, b) == [k |-> k, b |-> b]

write_string(s) == <<Field("len", pack("", "i", Len(s))), Field("raw", s)>>

\* uf.read(n) at offset pos, n >= 0: up to n bytes, fewer at end of file.
ReadBytes(b, pos, n) == SubSeq(b, pos + 1, pos + Min(n, Len(b) - pos))

StructError == Raise("struct.error", "unpack requires a string argument of the right length")

\* ReadScalar with a short read padded to a zero value instead of raising.
ReadScalar_pads(b, fmt, code, pos) ==
    LET raw == ReadBytes(b, pos, calcsize(code))
    IN  IF Len(raw) # calcsize(code)
        THEN [pos |-> pos + Len(raw), exc |-> NoExc,
              v |-> IF Numeric(code) THEN 0 ELSE [i \in 1..calcsize(code) |-> 0]]
        ELSE [pos |-> pos + Len(raw), exc |-> NoExc, v |-> unpack(fmt, code, raw)]

\* struct.unpack(fmt + code, uf.read(calcsize)): [pos, exc, v].
ReadScalar(b, fmt, code, pos) ==
    LET raw == ReadBytes(b, pos, calcsize(code))
    IN  IF Len(raw) # calcsize(code)
        THEN [pos |-> pos + Len(raw), exc |-> StructError, v |-> 0]
        ELSE [pos |-> pos + Len(raw), exc |-> NoExc, v |-> unpack(fmt, code, raw)]

read_string(b, fmt, pos) ==
    LET n == ReadScalar(b, fmt, "i", pos)
    IN  IF n.exc # NoExc THEN [pos |-> n.pos, exc |-> n.exc, v |-> <<>>]
        ELSE IF n.v < 0 THEN [pos |-> n.pos, exc |-> StructError, v |-> <<>>]
        ELSE LET raw == ReadBytes(b, n.pos, n.v)
             IN  IF Len(raw) # n.v
                 THEN [pos |-> n.pos + Len(raw), exc |-> StructError, v |-> <<>>]
                 ELSE [pos |-> n.pos + Len(raw), exc |-> NoExc, v |-> raw]

----------------------------------------------------------------------------
(* Ucm.write (lines 246-337).                                              *)

\* struct.pack(str(n) + code, *value): one field per element.
PackVector(code, value) ==
    IF Numeric(code)
    THEN [i \in 1..Len(value) |-> Field(code, pack("", code, value[i]))]
    ELSE LET el == Chunks(value, calcsize(code))
         IN  [i \in 1..Len(el) |-> Field(code, pack("", code, el[i]))]

\* len(val['value']) of a vector value.
VecLen(code, value) == IF Numeric(code) THEN Len(value) ELSE Len(value) \div calcsize(code)

\* The type dispatch of write, lines 271-314: [fields, exc].
WritePayload(itype, value) ==
    LET ok(fs) == [fields |-> fs, exc |-> NoExc]
        no(what) == [fields |-> <<>>, exc |-> Raise("Exception", what)]
        vec(code) == ok(<<Field("i", pack("", "i", VecLen(code, value)))>> \o PackVector(code, value))
    IN  CASE itype = ITYPE_DOUBLE    -> ok(<<Field("d", pack("", "d", value))>>)
          [] itype = ITYPE_CHAR      -> no("not enabled")
          [] itype = ITYPE_INT       -> ok(<<Field("i", pack("", "i", value[1]))>>)
          [] itype = ITYPE_UINT      -> ok(<<Field("I", pack("", "I", value))>>)
          [] itype = ITYPE_LINT      -> no("not enabled")
          [] itype = ITYPE_ULINT     -> no("not enabled")
          [] itype = ITYPE_FLOAT     -> ok(<<Field("f", pack("", "f", value))>>)
          [] itype = ITYPE_STRING    -> ok(write_string(value))
          [] itype = ITYPE_BOOL      -> ok(<<Field("B", pack("", "B", value[1]))>>)
          [] itype = ITYPE_DIR       -> ok(<<>>)
          [] itype = ITYPE_DATE      -> no("not enabled")
          [] itype = ITYPE_TIME      -> ok(<<Field("i", pack("", "i", value[1])),
                                            Field("d", pack("", "d", SubSeq(value, 2, 9)))>>)
          [] itype = ITYPE_POSITION  -> no("not enabled")
          [] itype = ITYPE_DVECTOR   -> vec("d")
          [] itype = ITYPE_UCHAR     -> ok(<<Field("c", pack("", "c", value[1]))>>)
          [] itype = ITYPE_TELESCOPE -> no("not enabled")
          [] itype = ITYPE_USINT     -> ok(<<Field("H", pack("", "H", value[1]))>>)
          [] itype = ITYPE_IVECTOR   -> vec("i")
          [] itype = ITYPE_FVECTOR   -> vec("f")
          [] OTHER                   -> no("not recognised")

\* One pass of the header loop, lines 264-314: name, tag, comment, payload.
\* What precedes the payload is written before the dispatch can raise.
WriteItemPayload(pre, pay) == [fields |-> pre \o pay.fields, exc |-> pay.exc]

WriteItem(item) ==
    WriteItemPayload(write_string(item.name)
                     \o <<Field("tag", pack("", "i", item.type))>>
                     \o write_string(item.comment),
                     WritePayload(item.type, item.value))

\* The header loop: stops at the first exception, with what was written so far.
RECURSIVE WriteHeader(_, _)
WriteHeaderNext(head, done, w) ==
    IF w.exc # NoExc THEN [fields |-> done \o w.fields, exc |-> w.exc]
    ELSE WriteHeader(Tail(head), done \o w.fields)

WriteHeader(head, done) ==
    IF Len(head) = 0 THEN [fields |-> done, exc |-> NoExc]
    ELSE WriteHeaderNext(head, done, WriteItem(Head(head)))

\* One window, lines 327-336: '9i' then the pixels as float32 in native order.
WriteWindow(u, nc, nw) ==
    LET win    == u.data[nc][nw]
        nine   == <<u.off[nc][nw][1], u.off[nc][nw][2], win.shape[2], win.shape[1],
                    u.xbin, u.ybin, u.nxtot, u.nytot, 0>>
        labels == <<"llx", "lly", "nx", "ny", "xbin", "ybin", "nxtot", "nytot", "iout">>
    IN  [i \in 1..9 |-> Field(labels[i], pack("", "i", nine[i]))]
        \o [j \in 1..Len(win.pix) |-> Field("pix", Reverse(win.pix[j]))]

\* One detector, lines 322-336.
WriteCcd(u, nc) ==
    <<Field("nwin", pack("", "i", Len(u.data[nc])))>>
    \o Flat([nw \in 1..Len(u.data[nc]) |-> WriteWindow(u, nc, nw)])

\* The detector part of write, lines 316-337, after the header hd was written.
WriteData(u, hd) ==
    IF hd.exc # NoExc THEN [fields |-> hd.fields, exc |-> hd.exc, fh |-> "open"]
    ELSE [fields |-> hd.fields
                     \o <<Field("nccd", pack("", "i", Len(u.data)))>>
                     \o Flat([nc \in 1..Len(u.data) |-> WriteCcd(u, nc)]),
          exc |-> NoExc, fh |-> "closed"]

\* Ucm.write: [fields, exc, fh].  uf.close() is reached only on the normal path.
write(u) ==
    WriteData(u, WriteHeader(u.head, <<Field("magic", pack("", "i", MAGIC)),
                                       Field("lmap", pack("", "i", Len(u.head)))>>))

----------------------------------------------------------------------------
(* _check_ucm (lines 88-107) and _rucm (lines 434-540).                    *)

\* The local variable `value` of _rucm: unbound until a branch assigns it.
Unbound == [bound |-> FALSE, v |-> <<>>]
Bound(v) == [bound |-> TRUE, v |-> v]

\* _check_ucm: [pos, exc, endian, fh].  CppError and fname are names the
\* module never defines, so the raise statement of line 103 ends in NameError.
check_ucm(b) ==
    LET fbytes == ReadBytes(b, 0, 4)
    IN  IF Len(fbytes) # 4
        THEN [pos |-> Len(fbytes), exc |-> StructError, endian |-> "none", fh |-> "open"]
        ELSE IF unpack("", "i", fbytes) # MAGIC
        THEN IF unpack(">", "i", fbytes) # MAGIC
             THEN [pos |-> 4, exc |-> Raise("NameError", "global name 'CppError' is not defined"),
                   endian |-> "none", fh |-> "closed"]
             ELSE [pos |-> 4, exc |-> NoExc, endian |-> ">", fh |-> "open"]
        ELSE [pos |-> 4, exc |-> NoExc, endian |-> "", fh |-> "open"]

\* nvec, then struct.unpack(fmt + str(nvec) + code, uf.read(size*nvec)).
ReadVector(b, fmt, code, pos) ==
    LET n == ReadScalar(b, fmt, "i", pos)
    IN  IF n.exc # NoExc THEN [pos |-> n.pos, exc |-> n.exc, v |-> <<>>]
        ELSE IF n.v < 0 \/ n.v > Len(b) - n.pos
        THEN [pos |-> n.pos, exc |-> StructError, v |-> <<>>]
        ELSE LET raw == ReadBytes(b, n.pos, calcsize(code) * n.v)
                 el  == Chunks(raw, calcsize(code))
             IN  IF Len(raw) # calcsize(code) * n.v
                 THEN [pos |-> n.pos + Len(raw), exc |-> StructError, v |-> <<>>]
                 ELSE [pos |-> n.pos + Len(raw), exc |-> NoExc,
                       v |-> IF Numeric(code)
                             THEN [i \in 1..Len(el) |-> unpack(fmt, code, el[i])]
                             ELSE Flat([i \in 1..Len(el) |-> unpack(fmt, code, el[i])])]

\* The type dispatch of _rucm, lines 463-505: [pos, exc, value].  There is no
\* else branch: a tag outside 0..18 leaves pos and value as they were.
ReadPayload(b, fmt, itype, pos, value) ==
    LET got(r, v) == [pos |-> r.pos, exc |-> r.exc,
                      value |-> IF r.exc = NoExc THEN Bound(v) ELSE value]
        num(code) == LET r == ReadScalar(b, fmt, code, pos) IN got(r, <<r.v>>)
        pat(code) == LET r == ReadScalar(b, fmt, code, pos) IN got(r, r.v)
        vec(code) == LET r == ReadVector(b, fmt, code, pos) IN got(r, r.v)
        no(what)  == [pos |-> pos, exc |-> Raise("Exception", what), value |-> value]
    IN  CASE itype = ITYPE_DOUBLE    -> pat("d")
          [] itype = ITYPE_CHAR      -> no("not enabled")
          [] itype = ITYPE_INT       -> num("i")
          [] itype = ITYPE_UINT      -> pat("I")
          [] itype = ITYPE_LINT      -> no("not enabled")
          [] itype = ITYPE_ULINT     -> no("not enabled")
          [] itype = ITYPE_FLOAT     -> pat("f")
          [] itype = ITYPE_STRING    -> LET r == read_string(b, fmt, pos) IN got(r, r.v)
          [] itype = ITYPE_BOOL      -> num("B")
          [] itype = ITYPE_DIR       -> [pos |-> pos, exc |-> NoExc, value |-> Bound(<<>>)]
          [] itype = ITYPE_DATE      -> no("not enabled")
          [] itype = ITYPE_TIME      ->
                LET mjd == ReadScalar(b, fmt, "i", pos)
                IN  IF mjd.exc # NoExc THEN got(mjd, <<>>)
                    ELSE LET hour == ReadScalar(b, fmt, "d", mjd.pos)
                         IN  got(hour, <<mjd.v>> \o hour.v)
          [] itype = ITYPE_POSITION  -> no("not enabled")
          [] itype = ITYPE_DVECTOR   -> vec("d")
          [] itype = ITYPE_UCHAR     -> num("c")
          [] itype = ITYPE_TELESCOPE -> no("not enabled")
          [] itype = ITYPE_USINT     -> num("H")
          [] itype = ITYPE_IVECTOR   -> vec("i")
          [] itype = ITYPE_FVECTOR   -> vec("f")
          [] OTHER                   -> [pos |-> pos, exc |-> NoExc, value |-> value]

\* head[name] = {...} on the ordered dictionary: replace in place, or append.
OdictSet(head, item) ==
    IF \E i \in 1..Len(head) : head[i].name = item.name
    THEN [i \in 1..Len(head) |-> IF head[i].name = item.name THEN item ELSE head[i]]
    ELSE Append(head, item)

\* One pass of the header loop, lines 459-508, on L = [pos, exc, head, value]:
\* the name, then the tag, then the comment, then the payload, then the store.
ItemFail(L, r) == [L EXCEPT !.pos = r.pos, !.exc = r.exc]

\* ItemStore with an item whose payload raised skipped, and the loop going on.
ItemStore_skips(L, name, itype, comment, pay) ==
    IF pay.exc # NoExc THEN [L EXCEPT !.pos = pay.pos]
    ELSE IF ~pay.value.bound
    THEN [L EXCEPT !.pos = pay.pos,
                   !.exc = Raise("UnboundLocalError", "local variable 'value' referenced before assignment")]
    ELSE [pos |-> pay.pos, exc |-> NoExc, value |-> pay.value,
          head |-> OdictSet(L.head, [name |-> name.v, type |-> itype.v,
                                     comment |-> comment.v, value |-> pay.value.v])]

ItemStore(L, name, itype, comment, pay) ==
    IF pay.exc # NoExc THEN [ItemFail(L, pay) EXCEPT !.value = pay.value]
    ELSE IF ~pay.value.bound
    THEN [L EXCEPT !.pos = pay.pos,
                   !.exc = Raise("UnboundLocalError", "local variable 'value' referenced before assignment")]
    ELSE [pos |-> pay.pos, exc |-> NoExc, value |-> pay.value,
          head |-> OdictSet(L.head, [name |-> name.v, type |-> itype.v,
                                     comment |-> comment.v, value |-> pay.value.v])]

ItemPayload(b, fmt, L, name, itype, comment) ==
    IF comment.exc # NoExc THEN ItemFail(L, comment)
    ELSE ItemStore(L, name, itype, comment, ReadPayload(b, fmt, itype.v, comment.pos, L.value))

ItemComment(b, fmt, L, name, itype) ==
    IF itype.exc # NoExc THEN ItemFail(L, itype)
    ELSE ItemPayload(b, fmt, L, name, itype, read_string(b, fmt, itype.pos))

ItemType(b, fmt, L, name) ==
    IF name.exc # NoExc THEN ItemFail(L, name)
    ELSE ItemComment(b, fmt, L, name, ReadScalar(b, fmt, "i", name.pos))

RucmItem(b, fmt, L) == ItemType(b, fmt, L, read_string(b, fmt, L.pos))

\* for i in xrange(lmap): no pass for lmap <= 0; an exception ends the loop.
RECURSIVE RucmHeader(_, _, _, _)
RucmHeader(b, fmt, L, n) ==
    IF n <= 0 \/ L.exc # NoExc THEN L
    ELSE RucmHeader(b, fmt, RucmItem(b, fmt, L), n - 1)

----------------------------------------------------------------------------
(* The detector / window / pixel part of _rucm, lines 510-540.             *)

Abs(x) == IF x < 0 THEN -x ELSE x

\* nx*ny as fromfile's count.  Python's product cannot overflow; where it would
\* leave the model's integers it is replaced by a count of the same sign that
\* the file cannot satisfy either.
Count(nx, ny, L) ==
    IF nx = 0 \/ ny = 0 THEN 0
    ELSE IF Abs(nx) <= L + 1 /\ Abs(ny) <= L + 1 THEN nx * ny
    ELSE IF (nx < 0) # (ny < 0) THEN -2 ELSE L + 1

\* numpy.fromfile(file=uf, dtype of w bytes, count): the items that are there,
\* at most count of them (all that remain for a negative count): [pos, items].
fromfile(b, pos, w, count) ==
    LET avail == (Len(b) - pos) \div w
        n     == IF count < 0 THEN avail ELSE Min(count, avail)
    IN  [pos |-> pos + n * w, items |-> Chunks(SubSeq(b, pos + 1, pos + n * w), w)]

RECURSIVE Log2(_)
Log2(u) == IF u <= 1 THEN 0 ELSE 1 + Log2(u \div 2)

\* cast_float32 with the uint16 bits reinterpreted instead of converted.
cast_float32_bits(u) == NatBytes(u, 4)

\* numpy.cast['float32'] of a uint16: the float32 bit pattern of the number u.
cast_float32(u) ==
    IF u = 0 THEN <<0, 0, 0, 0>>
    ELSE LET e == Log2(u)
         IN  NatBytes((e + 127) * Pow(2, 23) + (u - Pow(2, e)) * Pow(2, 23 - e), 4)

\* The samples of lines 525-529 for a recognised iout: float32 in native order
\* as read, or uint16 in native order widened to float32.
Samples(iout, items) ==
    IF iout = 0 THEN [j \in 1..Len(items) |-> Reverse(items[j])]
    ELSE [j \in 1..Len(items) |-> cast_float32(NatValue(Reverse(items[j])))]

\* win.reshape((ny,nx)): [exc, shape]; one dimension of -1 is inferred.
reshape(n, ny, nx) ==
    LET bad == [exc |-> Raise("ValueError", "total size of new array must be unchanged"),
                shape |-> <<0, 0>>]
    IN  IF ny >= 0 /\ nx >= 0
        THEN IF Count(nx, ny, n) = n THEN [exc |-> NoExc, shape |-> <<ny, nx>>] ELSE bad
        ELSE IF ny = -1 /\ nx > 0 /\ n % nx = 0 THEN [exc |-> NoExc, shape |-> <<n \div nx, nx>>]
        ELSE IF nx = -1 /\ ny > 0 /\ n % ny = 0 THEN [exc |-> NoExc, shape |-> <<ny, n \div ny>>]
        ELSE bad

\* The locals xbin, ybin, nxtot, nytot of _rucm: unbound until a window is read.
NoGeom == [bound |-> FALSE, xbin |-> 0, ybin |-> 0, nxtot |-> 0, nytot |-> 0]

\* One pass of the window loop, lines 523-534, on W = [pos, exc, ccd, coff, geom].
RucmWindow(b, fmt, W) ==
    LET raw == ReadBytes(b, W.pos, 32)
    IN  IF Len(raw) # 32 THEN [W EXCEPT !.pos = W.pos + Len(raw), !.exc = StructError] ELSE
        LET e    == [i \in 1..8 |-> unpack(fmt, "i", SubSeq(raw, 4 * i - 3, 4 * i))]
            llx  == e[1]
            lly  == e[2]
            nx   == e[3]
            ny   == e[4]
            geom == [bound |-> TRUE, xbin |-> e[5], ybin |-> e[6], nxtot |-> e[7], nytot |-> e[8]]
            iout == ReadScalar(b, fmt, "i", W.pos + 32)
        IN  IF iout.exc # NoExc THEN [W EXCEPT !.pos = iout.pos, !.exc = iout.exc, !.geom = geom] ELSE
            IF iout.v \notin {0, 1}
            THEN [W EXCEPT !.pos = iout.pos, !.geom = geom,
                           !.exc = Raise("Exception", "iout not recognised")] ELSE
            LET f  == fromfile(b, iout.pos, IF iout.v = 0 THEN 4 ELSE 2, Count(nx, ny, Len(b)))
                sh == reshape(Len(f.items), ny, nx)
            IN  IF sh.exc # NoExc THEN [W EXCEPT !.pos = f.pos, !.exc = sh.exc, !.geom = geom]
                ELSE [pos |-> f.pos, exc |-> NoExc, geom |-> geom,
                      ccd  |-> Append(W.ccd, [shape |-> sh.shape, pix |-> Samples(iout.v, f.items)]),
                      coff |-> Append(W.coff, <<llx, lly>>)]

\* for nw in range(nwin)
RECURSIVE RucmWindows(_, _, _, _)
RucmWindows(b, fmt, W, n) ==
    IF n <= 0 \/ W.exc # NoExc THEN W
    ELSE RucmWindows(b, fmt, RucmWindow(b, fmt, W), n - 1)

\* CcdDone with the binning and extent of an earlier detector's windows kept.
CcdDone_keeps(D, W) ==
    IF W.exc # NoExc THEN [D EXCEPT !.pos = W.pos, !.exc = W.exc, !.geom = W.geom]
    ELSE [pos |-> W.pos, exc |-> NoExc, geom |-> IF D.geom.bound THEN D.geom ELSE W.geom,
          data |-> Append(D.data, W.ccd), off |-> Append(D.off, W.coff)]

\* One pass of the detector loop, lines 518-537, on D = [pos, exc, data, off, geom].
CcdDone(D, W) ==
    IF W.exc # NoExc THEN [D EXCEPT !.pos = W.pos, !.exc = W.exc, !.geom = W.geom]
    ELSE [pos |-> W.pos, exc |-> NoExc, geom |-> W.geom,
          data |-> Append(D.data, W.ccd), off |-> Append(D.off, W.coff)]

CcdWindows(b, fmt, D, nwin) ==
    IF nwin.exc # NoExc THEN [D EXCEPT !.pos = nwin.pos, !.exc = nwin.exc]
    ELSE CcdDone(D, RucmWindows(b, fmt, [pos |-> nwin.pos, exc |-> NoExc, ccd |-> <<>>,
                                        coff |-> <<>>, geom |-> D.geom], nwin.v))

RucmCcd(b, fmt, D) == CcdWindows(b, fmt, D, ReadScalar(b, fmt, "i", D.pos))

\* for nc in range(nccd)
RECURSIVE RucmCcds(_, _, _, _)
RucmCcds(b, fmt, D, n) ==
    IF n <= 0 \/ D.exc # NoExc THEN D
    ELSE RucmCcds(b, fmt, RucmCcd(b, fmt, D), n - 1)

NoUcm == [head |-> <<>>, data |-> <<>>, off |-> <<>>, xbin |-> 0, ybin |-> 0,
          nxtot |-> 0, nytot |-> 0, built |-> FALSE]

\* What _rucm ends with: [exc, fh, endian, ret].
RucmOut(chk, exc, fh, ret) == [exc |-> exc, fh |-> fh, endian |-> chk.endian, ret |-> ret]

\* Lines 538-540: uf.close(), then the return statement, which reads xbin, ybin,
\* nxtot and nytot: names no pass of the window loop may have bound.
RucmReturn(chk, L, D) ==
    IF D.exc # NoExc THEN RucmOut(chk, D.exc, "open", NoUcm)
    ELSE IF ~D.geom.bound
    THEN RucmOut(chk, Raise("UnboundLocalError", "local variable 'xbin' referenced before assignment"),
                 "closed", NoUcm)
    ELSE RucmOut(chk, NoExc, "closed",
                 [head |-> L.head, data |-> D.data, off |-> D.off, xbin |-> D.geom.xbin,
                  ybin |-> D.geom.ybin, nxtot |-> D.geom.nxtot, nytot |-> D.geom.nytot,
                  built |-> TRUE])

\* Lines 517-537 after nccd was read.
RucmDetectors(b, chk, L, nccd) ==
    IF nccd.exc # NoExc THEN RucmOut(chk, nccd.exc, "open", NoUcm)
    ELSE RucmReturn(chk, L, RucmCcds(b, chk.endian, [pos |-> nccd.pos, exc |-> NoExc, data |-> <<>>,
                                                    off |-> <<>>, geom |-> NoGeom], nccd.v))

\* Lines 510-515 after the header loop left L.
RucmData(b, chk, L) ==
    IF L.exc # NoExc THEN RucmOut(chk, L.exc, "open", NoUcm)
    ELSE RucmDetectors(b, chk, L, ReadScalar(b, chk.endian, "i", L.pos))

\* Lines 457-508 after lmap was read.
RucmHead(b, chk, lmap) ==
    IF lmap.exc # NoExc THEN RucmOut(chk, lmap.exc, "open", NoUcm)
    ELSE RucmData(b, chk, RucmHeader(b, chk.endian, [pos |-> lmap.pos, exc |-> NoExc, head |-> <<>>,
                                                     value |-> Unbound], lmap.v))

\* Lines 454-455 after _check_ucm returned chk.
RucmChecked(b, chk) ==
    IF chk.exc # NoExc THEN RucmOut(chk, chk.exc, chk.fh, NoUcm)
    ELSE RucmHead(b, chk, ReadScalar(b, chk.endian, "i", chk.pos))

\* _rucm(fnoro) on a file of bytes b.  fnoro is "name" or "object": a name has
\* no read attribute, so the first _check_ucm ends in the AttributeError that
\* line 450 catches, and the file is opened and checked; an object is checked
\* as it is.  Either way uf is the open file and _check_ucm has read from it.
rucm(fnoro, b) ==
    IF fnoro = "name" THEN RucmChecked(b, check_ucm(b)) ELSE RucmChecked(b, check_ucm(b))

----------------------------------------------------------------------------
(* Ucm.__eq__ and Ucm.__ne__ (lines 196-228) for two objects of one type.  *)

nccd(u) == Len(u.data)
nwin(u, nc) == Len(u.data[nc])
nxy(u, nc, nw) == u.data[nc][nw].shape

\* Ucm_eq with the lly comparison of line 215 left out.
Ucm_eq_no_lly(a, b) ==
    IF Len(a.data) # Len(b.data) THEN FALSE
    ELSE IF a.xbin # b.xbin \/ a.ybin # b.ybin THEN FALSE
    ELSE IF a.nxtot # b.nxtot \/ a.nytot # b.nytot THEN FALSE
    ELSE \A nc \in 1..Len(a.data) :
            /\ Len(a.data[nc]) = Len(b.data[nc])
            /\ \A nw \in 1..Len(a.data[nc]) :
                  /\ a.data[nc][nw].shape[2] = b.data[nc][nw].shape[2]
                  /\ a.data[nc][nw].shape[1] = b.data[nc][nw].shape[1]
                  /\ a.off[nc][nw][1] = b.off[nc][nw][1]

Ucm_eq(a, b) ==
    IF nccd(a) # nccd(b) THEN FALSE
    ELSE IF a.xbin # b.xbin \/ a.ybin # b.ybin THEN FALSE
    ELSE IF a.nxtot # b.nxtot \/ a.nytot # b.nytot THEN FALSE
    ELSE \A nc \in 1..nccd(a) :
            /\ nwin(a, nc) = nwin(b, nc)
            /\ \A nw \in 1..nwin(a, nc) :
                  /\ nxy(a, nc, nw)[2] = nxy(b, nc, nw)[2]
                  /\ nxy(a, nc, nw)[1] = nxy(b, nc, nw)[1]
                  /\ a.off[nc][nw][1] = b.off[nc][nw][1]
                  /\ a.off[nc][nw][2] = b.off[nc][nw][2]

Ucm_ne(a, b) == ~Ucm_eq(a, b)

----------------------------------------------------------------------------
(* Bounds and the in-memory frames the scenarios start from.               *)

MaxHead == 2   \* header items per frame
MaxCcd  == 2   \* detectors per frame
MaxWin  == 2   \* windows per detector

UnknownTags == {19, -1}
ModelTags == SupportedTags \cup ReservedTags \cup UnknownTags
CommonTags == {ITYPE_INT, ITYPE_DIR}

\* Bit patterns, most significant byte first.
D30   == <<64, 62, 0, 0, 0, 0, 0, 0>>     \* double 30.0
D2p5  == <<64, 4, 0, 0, 0, 0, 0, 0>>      \* double 2.5
F0    == <<0, 0, 0, 0>>                   \* float32 0.0
F1    == <<63, 128, 0, 0>>                \* float32 1.0
F1p5  == <<63, 192, 0, 0>>                \* float32 1.5
F2    == <<64, 0, 0, 0>>                  \* float32 2.0
F65535 == <<71, 127, 255, 0>>             \* float32 65535.0

\* The name, comment and value of the header item in position s (names differ
\* by position, so a header's names are unique, as in an ordered dictionary).
NameAt(s) == IF s % 2 = 1 THEN <<64 + s>> ELSE <<65, 46, 96 + s>>
CommentAt(s) == IF s % 2 = 1 THEN <<115, 101, 99>> ELSE <<>>

\* A value of the shape the tag asks for: double, uint, float as bit patterns;
\* time as the day number followed by the hour's double pattern; vectors as
\* their elements in order (patterns concatenated); a string as its characters;
\* int, bool, uchar, usint as one number; directory and the tags without a
\* payload as the empty sequence.
ValueFor(tag, s) ==
    CASE tag = ITYPE_DOUBLE  -> IF s % 2 = 1 THEN D30 ELSE D2p5
      [] tag = ITYPE_INT     -> IF s % 2 = 1 THEN <<-2>> ELSE <<258>>
      [] tag = ITYPE_UINT    -> <<255, 255, 255, 254>>
      [] tag = ITYPE_FLOAT   -> F1p5
      [] tag = ITYPE_STRING  -> IF s % 2 = 1 THEN <<104, 105>> ELSE <<>>
      [] tag = ITYPE_BOOL    -> <<1>>
      [] tag = ITYPE_TIME    -> <<53592>> \o D2p5
      [] tag = ITYPE_DVECTOR -> IF s % 2 = 1 THEN D30 \o D2p5 ELSE <<>>
      [] tag = ITYPE_UCHAR   -> <<120>>
      [] tag = ITYPE_USINT   -> <<65535>>
      [] tag = ITYPE_IVECTOR -> <<7, -1, 300>>
      [] tag = ITYPE_FVECTOR -> F1p5 \o F2
      [] OTHER               -> <<>>

ItemAt(tag, s) ==
    [name |-> NameAt(s), type |-> tag, comment |-> CommentAt(s), value |-> ValueFor(tag, s)]

HeadOf(tags) == [s \in 1..Len(tags) |-> ItemAt(tags[s], s)]

\* Headers of up to MaxHead items, at most one of them with a tag outside CommonTags.
HeadPool ==
    UNION {{HeadOf(t) : t \in {u \in [1..n -> ModelTags] :
                                  Cardinality({i \in 1..n : u[i] \notin CommonTags}) <= 1}}
           : n \in 0..MaxHead}

SmallHeads == {<<>>, HeadOf(<<ITYPE_DOUBLE>>)}

\* Window nw of detector nc: the two shapes and pixel contents alternate.
WinAt(nc, nw) ==
    IF (nc + nw) % 2 = 0 THEN [shape |-> <<1, 2>>, pix |-> <<F1, F65535>>]
    ELSE [shape |-> <<2, 1>>, pix |-> <<F0, F2>>]

OffAt(nc, nw) == <<10 * nc + nw, nw - 3 * nc>>

\* The frame with the given header and counts[nc] windows in detector nc.
FrameOf(head, counts) ==
    [head |-> head,
     data |-> [nc \in 1..Len(counts) |-> [nw \in 1..counts[nc] |-> WinAt(nc, nw)]],
     off  |-> [nc \in 1..Len(counts) |-> [nw \in 1..counts[nc] |-> OffAt(nc, nw)]],
     xbin |-> 2, ybin |-> 3, nxtot |-> 100, nytot |-> 200, built |-> TRUE]

CountsPool == UNION {[1..n -> 0..MaxWin] : n \in 0..MaxCcd}
SmallCounts == {<<>>, <<1>>}

FramePool ==
    {FrameOf(h, c) : h \in HeadPool, c \in SmallCounts}
    \cup {FrameOf(h, c) : h \in SmallHeads, c \in CountsPool}

----------------------------------------------------------------------------
(* Files that reach the reader from elsewhere: written on a machine of the *)
(* other byte order, cut short, or produced by another writer of the       *)
(* format (uint16 pixels, other tags, other window records).               *)

Bytes(fields) == Flat([i \in 1..Len(fields) |-> fields[i].b])

\* Every multi-byte field in the other byte order (raw string bytes stay).
SwapFields(fields) ==
    [i \in 1..Len(fields) |->
        IF fields[i].k = "raw" THEN fields[i] ELSE Field(fields[i].k, Reverse(fields[i].b))]

\* Positions of the fields of kind k, in file order.
RECURSIVE Where(_, _, _)
Where(fields, k, i) ==
    IF i > Len(fields) THEN <<>>
    ELSE (IF fields[i].k = k THEN <<i>> ELSE <<>>) \o Where(fields, k, i + 1)

\* How many fields of kind k precede position i.
Before(fields, k, i) == Cardinality({j \in 1..(i - 1) : fields[j].k = k})

U16Cycle == <<0, 65535, 1, 256>>

\* The file with every window stored as uint16 (iout = 1): pixel j of the file
\* holds U16Cycle[(j + r) mod 4].
AsU16(fields, r) ==
    [i \in 1..Len(fields) |->
        IF fields[i].k = "iout" THEN Field("iout", pack("", "i", 1))
        ELSE IF fields[i].k = "pix"
        THEN Field("pix", pack("", "H", U16Cycle[((Before(fields, "pix", i) + r) % 4) + 1]))
        ELSE fields[i]]

\* The file with field i holding the int32 v.
SetInt(fields, i, v) == [fields EXCEPT ![i] = Field(fields[i].k, pack("", "i", v))]

----------------------------------------------------------------------------
(* The scenarios.                                                          *)

Init ==
    /\ self \in FramePool
    /\ disk = <<>>
    /\ phase = "new"
    /\ how = "none"
    /\ xf = "none"
    /\ wexc = NoExc
    /\ wfh = "unopened"
    /\ rexc = NoExc
    /\ rfh = "unopened"
    /\ endian = "none"
    /\ other = NoUcm
    /\ eqres = <<>>

\* ucm.write(fname)
UcmWrite ==
    /\ phase = "new"
    /\ LET w == write(self)
       IN  /\ disk' = w.fields
           /\ wexc' = w.exc
           /\ wfh' = w.fh
    /\ phase' = "written"
    /\ UNCHANGED <<self, how, xf, rexc, rfh, endian, other, eqres>>

Untouched == phase = "written" /\ wexc = NoExc /\ how = "none" /\ xf = "none"

\* Another writer stored the pixels as uint16.
ForeignU16 ==
    /\ Untouched
    /\ Where(disk, "pix", 1) # <<>>
    /\ \E r \in 0..1 : disk' = AsU16(disk, r)
    /\ how' = "u16"
    /\ UNCHANGED <<self, phase, xf, wexc, wfh, rexc, rfh, endian, other, eqres>>

\* Another writer used a tag this module does not implement, or does not know.
ForeignTag ==
    /\ Untouched
    /\ \E i \in 1..Len(disk), t \in ReservedTags \cup UnknownTags :
          /\ disk[i].k = "tag"
          /\ disk' = SetInt(disk, i, t)
    /\ how' = "tag"
    /\ UNCHANGED <<self, phase, xf, wexc, wfh, rexc, rfh, endian, other, eqres>>

\* Another writer used a pixel encoding other than 0 and 1.
ForeignIout ==
    /\ Untouched
    /\ \E i \in 1..Len(disk), v \in {2, -1} :
          /\ disk[i].k = "iout"
          /\ disk' = SetInt(disk, i, v)
    /\ how' = "iout"
    /\ UNCHANGED <<self, phase, xf, wexc, wfh, rexc, rfh, endian, other, eqres>>

\* Not a ucm file: the first four bytes are not the magic in either order.
ForeignMagic ==
    /\ Untouched
    /\ \E v \in {0, MAGIC + 1} : disk' = SetInt(disk, 1, v)
    /\ how' = "magic"
    /\ UNCHANGED <<self, phase, xf, wexc, wfh, rexc, rfh, endian, other, eqres>>

\* Another writer gave one window record binning and extent of its own.
ForeignBin ==
    /\ Untouched
    /\ \E i \in 1..Len(disk) :
          /\ disk[i].k = "xbin"
          /\ disk' = SetInt(SetInt(SetInt(SetInt(disk, i, 5), i + 1, 7), i + 2, 300), i + 3, 400)
    /\ how' = "bin"
    /\ UNCHANGED <<self, phase, xf, wexc, wfh, rexc, rfh, endian, other, eqres>>

\* The file comes from a machine of the other byte order.
ByteSwap ==
    /\ phase = "written" /\ wexc = NoExc
    /\ xf = "none"
    /\ how \in {"none", "u16"}
    /\ disk' = SwapFields(disk)
    /\ xf' = "swap"
    /\ UNCHANGED <<self, phase, how, wexc, wfh, rexc, rfh, endian, other, eqres>>

\* The file is cut short at a field boundary.
Truncate ==
    /\ phase = "written" /\ wexc = NoExc
    /\ \/ xf = "none" /\ how \in {"none", "u16"}
       \/ xf = "swap" /\ how = "none"
    /\ \E k \in 1..(Len(disk) - 1) :
          /\ Bytes(SubSeq(disk, k + 1, Len(disk))) # <<>>
          /\ disk' = SubSeq(disk, 1, k)
    /\ xf' = "cut"
    /\ UNCHANGED <<self, phase, how, wexc, wfh, rexc, rfh, endian, other, eqres>>

\* Ucm(fnoro), lines 177-194: _rucm, then the attributes are set from what it returned.
UcmRead ==
    /\ phase = "written" /\ wexc = NoExc
    /\ \E fnoro \in {"name", "object"} :
          LET r == rucm(fnoro, Bytes(disk))
          IN  /\ rexc' = r.exc
              /\ rfh' = r.fh
              /\ endian' = r.endian
              /\ other' = r.ret
    /\ phase' = "read"
    /\ UNCHANGED <<self, disk, how, xf, wexc, wfh, eqres>>

\* self == other and self != other
Compare ==
    /\ phase = "read"
    /\ other.built
    /\ eqres' = <<Ucm_eq(self, other), Ucm_ne(self, other)>>
    /\ phase' = "compared"
    /\ UNCHANGED <<self, disk, how, xf, wexc, wfh, rexc, rfh, endian, other>>

Next ==
    \/ UcmWrite
    \/ ForeignU16
    \/ ForeignTag
    \/ ForeignIout
    \/ ForeignMagic
    \/ ForeignBin
    \/ ByteSwap
    \/ Truncate
    \/ UcmRead
    \/ Compare

Spec == Init /\ [][Next]_vars

----------------------------------------------------------------------------
(* Pairs of frames for the comparison operators.                           *)

\* The last window of the last detector, <<0, 0>> when that detector has none.
LastWin(f) ==
    IF Len(f.data) > 0 /\ Len(f.data[Len(f.data)]) > 0
    THEN <<Len(f.data), Len(f.data[Len(f.data)])>> ELSE <<0, 0>>

\* f changed in one respect v; a frame without a last window has no window to change.
Perturb(f, v) ==
    LET w == LastWin(f)
        win(x) == IF w = <<0, 0>> THEN f ELSE [f EXCEPT !.data[w[1]][w[2]] = x]
        off(x) == IF w = <<0, 0>> THEN f ELSE [f EXCEPT !.off[w[1]][w[2]] = x]
        sh == f.data[w[1]][w[2]].shape
    IN  CASE v = 1  -> [f EXCEPT !.xbin = @ + 1]
          [] v = 2  -> [f EXCEPT !.ybin = @ + 1]
          [] v = 3  -> [f EXCEPT !.nxtot = @ + 1]
          [] v = 4  -> [f EXCEPT !.nytot = @ + 1]
          [] v = 5  -> win([shape |-> <<sh[1] + 1, sh[2]>>, pix |-> [j \in 1..((sh[1] + 1) * sh[2]) |-> F0]])
          [] v = 6  -> win([shape |-> <<sh[1], sh[2] + 1>>, pix |-> [j \in 1..(sh[1] * (sh[2] + 1)) |-> F0]])
          [] v = 7  -> off(<<f.off[w[1]][w[2]][1] + 1, f.off[w[1]][w[2]][2]>>)
          [] v = 8  -> off(<<f.off[w[1]][w[2]][1], f.off[w[1]][w[2]][2] + 1>>)
          [] v = 9  -> [f EXCEPT !.head = HeadOf(<<ITYPE_INT>>)]
          [] v = 10 -> win([f.data[w[1]][w[2]] EXCEPT !.pix = <<F1p5, F1p5>>])
          [] OTHER  -> f

EqBase == {FrameOf(<<>>, c) : c \in CountsPool}
EqPool == {Perturb(f, v) : f \in EqBase, v \in 0..10}

InitEq ==
    /\ \E a \in EqBase, b \in EqPool :
          \/ self = a /\ other = b
          \/ self = b /\ other = a
    /\ disk = <<>>
    /\ phase = "read"
    /\ how = "none"
    /\ xf = "none"
    /\ wexc = NoExc
    /\ wfh = "unopened"
    /\ rexc = NoExc
    /\ rfh = "unopened"
    /\ endian = "none"
    /\ eqres = <<>>

SpecEq == InitEq /\ [][Compare]_vars

----------------------------------------------------------------------------
(* Vocabulary of the claims.                                               *)

Done == phase \in {"read", "compared"}

\* The file is what Ucm.write wrote, byte for byte.
Pristine == how = "none" /\ xf = "none"

\* The exception classes the module's own raise statements name for a file it
\* cannot decode or a tag it does not know (lines 103, 314, 531).
FormatErrorClasses == {"CppError", "Exception"}

\* The exception line 103 is written to raise.
NotUcmFile == Raise("CppError", "could not recognise first 4 bytes as a ucm file")

\* The first item of a header that the type dispatch cannot transfer, 0 if none.
FirstUnsupported(head) ==
    IF \A i \in 1..Len(head) : head[i].type \in SupportedTags THEN 0
    ELSE CHOOSE i \in 1..Len(head) :
            /\ head[i].type \notin SupportedTags
            /\ \A j \in 1..(i - 1) : head[j].type \in SupportedTags

\* The tag fields of the file, as the reader's byte order reads them.
FileTags == [n \in 1..Len(Where(disk, "tag", 1)) |->
                unpack(endian, "i", disk[Where(disk, "tag", 1)[n]].b)]

\* The windows of a decoded frame in stream order.
FlatWins(u) == Flat(u.data)

\* The float32 with bit pattern p is the number u (u a natural below 2^24).
FloatIsNat(p, u) ==
    IF u = 0 THEN p = <<0, 0, 0, 0>>
    ELSE LET bits == NatValue(p)
             e    == (bits \div Pow(2, 23)) - 127
             m    == bits % Pow(2, 23)
         IN  /\ p[1] < 128
             /\ e \in 0..23
             /\ m % Pow(2, 23 - e) = 0
             /\ Pow(2, e) + (m \div Pow(2, 23 - e)) = u

----------------------------------------------------------------------------
(* The claims.                                                             *)

\* C1: a frame written by Ucm.write and decoded by _rucm gives a frame equal to
\* the original under structural equality, with every window's pixels equal.
C1_FrameRoundTrip ==
    (Done /\ Pristine) =>
        /\ rexc = NoExc
        /\ other.built
        /\ Ucm_eq(self, other)
        /\ other.data = self.data

\* C2: a header of supported items written by Ucm.write and decoded by _rucm
\* gives the same names in the same order, each with its tag, comment and value.
C2_HeaderRoundTrip ==
    (Done /\ Pristine) =>
        /\ rexc = NoExc
        /\ other.head = self.head

\* C3: a file with the magic and every multi-byte field, pixels included, in
\* the other byte order decodes to what the file in native order decodes to.
C3_EndiannessSymmetry ==
    (Done /\ xf = "swap") =>
        LET ref == rucm("object", Bytes(SwapFields(disk)))
        IN  /\ rexc = ref.exc
            /\ other = ref.ret

\* C4: on the first 4 bytes the reader chooses native order when they are the
\* magic in native order, else swapped order when they are the magic in
\* big-endian order, else fails with the error that names the file as not a
\* ucm file, with the stream closed and no frame built.
C4_EndiannessDetection ==
    (Done /\ Len(Bytes(disk)) >= 4) =>
        LET first == SubSeq(Bytes(disk), 1, 4)
        IN  IF unpack("", "i", first) = MAGIC THEN endian = ""
            ELSE IF unpack(">", "i", first) = MAGIC THEN endian = ">"
            ELSE /\ rexc = NotUcmFile
                 /\ rfh = "closed"
                 /\ ~other.built

\* C5 as claimed: a reserved tag makes Ucm.write and _rucm fail with an error
\* of a class other than those used for a bad magic or an unrecognised tag.
C5_UnsupportedIsDistinctKind ==
    /\ (phase # "new" /\ FirstUnsupported(self.head) # 0
        /\ self.head[FirstUnsupported(self.head)].type \in ReservedTags)
          => (wexc # NoExc /\ wexc.cls \notin FormatErrorClasses)
    /\ (Done /\ how = "tag" /\ \E n \in 1..Len(FileTags) : FileTags[n] \in ReservedTags)
          => (rexc # NoExc /\ rexc.cls \notin FormatErrorClasses)

\* C5 as amended: a reserved tag makes Ucm.write and _rucm fail with a plain
\* Exception saying the type is not enabled; the writer stops right after the
\* item's comment and the reader builds no frame: the item is never skipped.
C5_ReservedTagsFail ==
    /\ (phase # "new" /\ FirstUnsupported(self.head) # 0
        /\ self.head[FirstUnsupported(self.head)].type \in ReservedTags)
          => /\ wexc = Raise("Exception", "not enabled")
             /\ Len(Where(disk, "tag", 1)) = FirstUnsupported(self.head)
             /\ Where(disk, "nccd", 1) = <<>>
             /\ disk[Len(disk)] = Field("raw", self.head[FirstUnsupported(self.head)].comment)
    /\ (Done /\ how = "tag" /\ \E n \in 1..Len(FileTags) : FileTags[n] \in ReservedTags)
          => /\ rexc = Raise("Exception", "not enabled")
             /\ other = NoUcm

C5_Witness ==
    /\ Done /\ how = "tag"
    /\ \E n \in 1..Len(FileTags) : FileTags[n] = ITYPE_TELESCOPE
    /\ rexc = Raise("Exception", "not enabled")

\* C6: every item of a decoded header has a tag of the 19-entry table and the
\* value read for that tag; a tag outside 0..18 makes the decode fail as an
\* unrecognised tag instead of storing the item.
C6_TagValueAgreement ==
    Done =>
        /\ rexc = NoExc => \A i \in 1..Len(other.head) : other.head[i].type \in 0..18
        /\ (how = "tag" /\ \E n \in 1..Len(FileTags) : FileTags[n] \notin 0..18)
              => (rexc.cls \in FormatErrorClasses /\ rexc.msg = "not recognised")

\* C7: when Ucm.write or _rucm has ended, normally or not, its file handle is closed.
C7_StreamRelease ==
    /\ phase # "new" => wfh = "closed"
    /\ Done => rfh = "closed"

\* C8: for every window record the reader takes nx*ny samples and shapes them
\* (ny, nx); with iout = 0 the float32 samples as read, with iout = 1 the
\* uint16 samples as read, each widened to the float32 of the same number;
\* any other iout ends the decode with the iout error and no frame.
\* (Samples are taken in the order the reader reads them, the host's.)
C8_PixelPayload ==
    (Done /\ xf \in {"none", "swap"} /\ how \in {"none", "u16", "iout", "bin"}) =>
        LET recs == Where(disk, "iout", 1)
            int(i) == unpack(endian, "i", disk[i].b)
        IN  IF \E w \in 1..Len(recs) : int(recs[w]) \notin {0, 1}
            THEN rexc = Raise("Exception", "iout not recognised") /\ other = NoUcm
            ELSE /\ recs # <<>> => rexc = NoExc
                 /\ rexc = NoExc =>
                      /\ Len(FlatWins(other)) = Len(recs)
                      /\ \A w \in 1..Len(recs) :
                            LET i   == recs[w]
                                nx  == int(i - 6)
                                ny  == int(i - 5)
                                win == FlatWins(other)[w]
                            IN  /\ win.shape = <<ny, nx>>
                                /\ Len(win.pix) = nx * ny
                                /\ \A j \in 1..(nx * ny) :
                                      /\ disk[i + j].k = "pix"
                                      /\ IF int(i) = 0
                                         THEN win.pix[j] = Reverse(disk[i + j].b)
                                         ELSE /\ Len(disk[i + j].b) = 2
                                              /\ FloatIsNat(win.pix[j], NatValue(Reverse(disk[i + j].b)))

C8_Witness ==
    /\ Done /\ how = "u16" /\ xf = "none" /\ rexc = NoExc
    /\ Len(FlatWins(other)) >= 2
    /\ \E w \in 1..Len(FlatWins(other)) : FlatWins(other)[w].pix = <<F0, F65535>>
    /\ \E w \in 1..Len(FlatWins(other)) : FlatWins(other)[w].shape = <<2, 1>>

\* The layouts of a and b agree: detector count, window count of each detector,
\* shape and offset of each window, and the binning and extent numbers.
SameLayout(a, b) ==
    /\ Len(a.data) = Len(b.data)
    /\ \A nc \in 1..Len(a.data) :
          /\ Len(a.data[nc]) = Len(b.data[nc])
          /\ \A nw \in 1..Len(a.data[nc]) :
                /\ a.data[nc][nw].shape = b.data[nc][nw].shape
                /\ a.off[nc][nw] = b.off[nc][nw]
    /\ <<a.xbin, a.ybin, a.nxtot, a.nytot>> = <<b.xbin, b.ybin, b.nxtot, b.nytot>>

\* C9: a == b is True exactly when the layouts agree, whatever the headers and
\* the pixels hold, and a != b is its negation.
C9_StructuralEquality ==
    phase = "compared" =>
        /\ eqres[1] = SameLayout(self, other)
        /\ eqres[2] = ~eqres[1]

C9_Witness ==
    /\ phase = "compared"
    /\ eqres = <<TRUE, FALSE>>
    /\ self.head # other.head
    /\ Len(self.data) = 2

\* C10 as claimed: a valid encoding cut short at a field boundary fails with
\* one of the module's format errors, and no frame is built from part of it.
C10_TruncationIsFormatError ==
    (Done /\ xf = "cut") => (rexc.cls \in FormatErrorClasses /\ other = NoUcm)

\* C10 as amended: a valid encoding cut short at a field boundary fails with
\* struct.error (a short read) or ValueError (a short pixel payload), and no
\* decode that ended in an exception has built a frame.
C10_TruncationFails ==
    /\ (Done /\ xf = "cut") => (rexc.cls \in {"struct.error", "ValueError"} /\ other = NoUcm)
    /\ (Done /\ rexc # NoExc) => other = NoUcm

C10_Witness ==
    /\ Done /\ xf = "cut"
    /\ rexc.cls = "ValueError"
    /\ Where(disk, "pix", 1) # <<>>

\* The int32 fields of window record w of the file (1 = llx .. 8 = nytot), as the
\* reader's byte order reads them.
RecordInts(w) ==
    LET i == Where(disk, "iout", 1)[w]
    IN  [n \in 1..8 |-> unpack(endian, "i", disk[i - 9 + n].b)]

\* C11: after a successful decode xbin, ybin, nxtot and nytot of the frame are
\* those of the last window record in stream order, whatever earlier records
\* carry, and each window has the offset (llx, lly) and the shape (ny, nx) of
\* its own record.
C11_LastWindowWins ==
    (Done /\ rexc = NoExc /\ how \in {"none", "u16", "bin"}) =>
        LET n == Len(Where(disk, "iout", 1))
        IN  /\ n > 0
            /\ Len(FlatWins(other)) = n
            /\ <<other.xbin, other.ybin, other.nxtot, other.nytot>> = SubSeq(RecordInts(n), 5, 8)
            /\ \A w \in 1..n :
                  /\ Flat(other.off)[w] = <<RecordInts(w)[1], RecordInts(w)[2]>>
                  /\ FlatWins(other)[w].shape = <<RecordInts(w)[4], RecordInts(w)[3]>>

\* An earlier record of another detector carries 5, 7, 300, 400; the last one
\* carries 2, 3, 100, 200, and the decode succeeds with the last one's numbers.
C11_Witness ==
    /\ Done /\ rexc = NoExc /\ how = "bin"
    /\ Len(other.data) >= 2 /\ Len(other.data[1]) >= 1
    /\ SubSeq(RecordInts(1), 5, 8) = <<5, 7, 300, 400>>
    /\ SubSeq(RecordInts(Len(Where(disk, "iout", 1))), 5, 8) = <<2, 3, 100, 200>>
    /\ Len(other.data[Len(other.data)]) >= 1
    /\ other.xbin = 2

====
